---- MODULE Spec2Model ----
(***************************************************************************)
(* Model of jha_streamlit_app_v2.py: a Streamlit script that loads an      *)
(* Excel workbook, filters the active sheet, shows charts and row details  *)
(* and exports the filtered rows.  Every user interaction re-runs the      *)
(* whole script, so each action below is one script run.                   *)
(*                                                                         *)
(* Strings are sequences of one-character strings.  A cell is a record     *)
(* [t, s, n]: a missing cell (NaN), a text cell or an integer cell         *)
(* (read_excel is called with dtype=object, so cells keep their type).     *)
(* A DataFrame is [columns, index, rows]; index holds the row labels,      *)
(* which boolean-mask selection keeps.  Column headers of one sheet are    *)
(* taken to be distinct after trimming.                                    *)
(***************************************************************************)
EXTENDS Integers, Sequences, FiniteSets, TLC

VARIABLES pc, file, data_dict, sheets, sheet_choice, search_q, sel_div,
          sel_risk, division_col, risk_col, hazard_col, control_col,
          filtered, idx, pdf_bytes

vars == <<pc, file, data_dict, sheets, sheet_choice, search_q, sel_div,
          sel_risk, division_col, risk_col, hazard_col, control_col,
          filtered, idx, pdf_bytes>>

----------------------------------------------------------------------------
(* Bounds of the model *)

\* rows of a sheet whose cells are enumerated, alone in its workbook
MaxRows == 2

\* the same, for a sheet with a second sheet beside it
MaxRowsMulti == 1

\* rows of a sheet with a single, division column
MaxFillRows == 4

\* columns of a sheet whose header row is enumerated
MaxCols == 2

\* rows of the longest sheet
MaxPdfRows == 120

\* the row numbers the user types are the first few and the last one
MaxPick == 3

----------------------------------------------------------------------------
(* Characters and strings *)

UpperCase ==
    <<"A", "B", "C", "D", "E", "F", "G", "H", "I", "J", "K", "L", "M",
      "N", "O", "P", "Q", "R", "S", "T", "U", "V", "W", "X", "Y", "Z">>

LowerCase ==
    <<"a", "b", "c", "d", "e", "f", "g", "h", "i", "j", "k", "l", "m",
      "n", "o", "p", "q", "r", "s", "t", "u", "v", "w", "x", "y", "z">>

DigitChars == <<"0", "1", "2", "3", "4", "5", "6", "7", "8", "9">>

\* the characters the model uses, in code-point order
CodeOrder == <<" ", ",", "-", ".">> \o DigitChars \o <<":">> \o UpperCase
             \o LowerCase \o <<"|">>

\* a list whose elements are computed once, when the list is built
list(f) == f \o <<>>

\* code-point rank of each character
OrdMap ==
    [c \in {CodeOrder[i] : i \in 1..Len(CodeOrder)} |->
        CHOOSE i \in 1..Len(CodeOrder) : CodeOrder[i] = c]

Ord(c) == OrdMap[c]

\* the lower-case form of each character
LowerMap ==
    [c \in {CodeOrder[i] : i \in 1..Len(CodeOrder)} |->
        IF \E i \in 1..Len(UpperCase) : UpperCase[i] = c
        THEN LowerCase[CHOOSE i \in 1..Len(UpperCase) : UpperCase[i] = c]
        ELSE c]

LowerChar(c) == LowerMap[c]

\* str.lower()
Lower(s) == list([i \in 1..Len(s) |-> LowerChar(s[i])])

\* s[:n]
Take(s, n) == SubSeq(s, 1, IF Len(s) < n THEN Len(s) ELSE n)

\* Python's  sub in s
Contains(s, sub) ==
    \E off \in 0..(Len(s) - Len(sub)) :
        \A j \in 1..Len(sub) : s[off + j] = sub[j]

\* re.search(pat, s) for patterns made of literal characters and "."
RegexSearch(pat, s) ==
    \E off \in 0..(Len(s) - Len(pat)) :
        \A j \in 1..Len(pat) : pat[j] = "." \/ s[off + j] = pat[j]

RECURSIVE LStrip(_)
LStrip(s) == IF s # <<>> /\ Head(s) = " " THEN LStrip(Tail(s)) ELSE s

RECURSIVE RStrip(_)
RStrip(s) ==
    IF s # <<>> /\ s[Len(s)] = " " THEN RStrip(SubSeq(s, 1, Len(s) - 1))
    ELSE s

\* str.strip()
Strip(s) == RStrip(LStrip(s))

\* lexicographic  a < b  on strings
RECURSIVE StrLess(_, _)
StrLess(a, b) ==
    IF b = <<>> THEN FALSE
    ELSE IF a = <<>> THEN TRUE
    ELSE IF Head(a) = Head(b) THEN StrLess(Tail(a), Tail(b))
    ELSE Ord(Head(a)) < Ord(Head(b))

\* sorted(list of distinct strings)
RECURSIVE Sorted(_)
Sorted(S) ==
    IF S = {} THEN <<>>
    ELSE LET m == CHOOSE x \in S : \A y \in S \ {x} : StrLess(x, y)
         IN  <<m>> \o Sorted(S \ {m})

\* decimal digits of a natural number
RECURSIVE Digits(_)
Digits(n) ==
    IF n < 10 THEN <<DigitChars[n + 1]>>
    ELSE Digits(n \div 10) \o <<DigitChars[(n % 10) + 1]>>

----------------------------------------------------------------------------
(* Cells *)

NaN == [t |-> "null", s |-> <<>>, n |-> 0]

Text(s) == [t |-> "str", s |-> s, n |-> 0]

Number(n) == [t |-> "int", s |-> <<>>, n |-> n]

isna(v) == v.t = "null"

\* str(v), which is what Series.astype(str) applies to each element of an
\* object column: a missing cell becomes the text "nan"
Str(v) ==
    IF v.t = "null" THEN <<"n", "a", "n">>
    ELSE IF v.t = "int" THEN Digits(v.n)
    ELSE v.s

All == <<"A", "l", "l">>

Unknown == Text(<<"U", "n", "k", "n", "o", "w", "n">>)

\* Python's None for an unbound column; like "", it is falsy
None == <<>>

----------------------------------------------------------------------------
(* DataFrames *)

Range(f) == {f[i] : i \in DOMAIN f}

Max(a, b) == IF a < b THEN b ELSE a

Min(a, b) == IF a < b THEN a ELSE b

EmptyDF == [columns |-> <<>>, index |-> <<>>, rows |-> <<>>]

\* position of the column labelled name
ColPos(columns, name) ==
    CHOOSE j \in 1..Len(columns) :
        columns[j] = name /\ \A k \in 1..(j - 1) : columns[k] # name

\* df[name]: the values of one column, top to bottom
Column(df, name) ==
    LET j == ColPos(df.columns, name)
    IN  list([i \in 1..Len(df.rows) |-> df.rows[i][j]])

\* the positions 1..n whose mask entry is True, in order
Kept(mask, n) == SelectSeq(list([i \in 1..n |-> i]), LAMBDA i : mask[i])

\* the rows of df at positions k, with their index labels
TakeRows(df, k) ==
    [columns |-> df.columns,
     index   |-> list([j \in 1..Len(k) |-> df.index[k[j]]]),
     rows    |-> list([j \in 1..Len(k) |-> df.rows[k[j]]])]

\* df[mask]: the rows whose mask entry is True
BoolIndex(df, mask) == TakeRows(df, Kept(mask, Len(df.rows)))

\* the value carried past a cell: the cell's own, or the one carried so far
Carry(last, v) == IF isna(v) THEN last ELSE v

RECURSIVE ffillFrom(_, _)

\* the upper half of a column filled, then the lower half with what the
\* upper half carries out
FillHalves(upper, lower) == upper \o ffillFrom(lower, upper[Len(upper)])

\* Series.ffill(): walk down the column carrying the last value seen
\* (the walk is split in halves to keep the evaluation shallow)
ffillFrom(col, last) ==
    IF col = <<>> THEN <<>>
    ELSE IF Len(col) = 1 THEN <<Carry(last, col[1])>>
    ELSE FillHalves(ffillFrom(SubSeq(col, 1, Len(col) \div 2), last),
                    SubSeq(col, Len(col) \div 2 + 1, Len(col)))

\* variant: every missing cell takes the first value of the column instead
\* of the nearest one above it
ffillFirst(col) ==
    list([i \in 1..Len(col) |->
            IF isna(col[i]) /\ \E h \in 1..(i - 1) : ~isna(col[h])
            THEN col[CHOOSE h \in 1..(i - 1) :
                        ~isna(col[h]) /\ \A g \in 1..(h - 1) : isna(col[g])]
            ELSE col[i]])

ffill(col) == ffillFrom(col, NaN)

\* Series.fillna(value)
fillna(col, value) ==
    list([i \in 1..Len(col) |-> IF isna(col[i]) THEN value ELSE col[i]])

\* Series.value_counts(): one entry per distinct value, with its row count
value_counts(col) ==
    {[value |-> v, count |-> Cardinality({i \in DOMAIN col : col[i] = v})] :
        v \in Range(col)}

\* pd.crosstab(a, b): a count for every pair of a value of a and one of b
crosstab(a, b) ==
    {[hazard |-> x, control |-> y,
      count |-> Cardinality({i \in DOMAIN a : a[i] = x /\ b[i] = y})] :
        x \in Range(a), y \in Range(b)}

\* DataFrame.to_dict(orient='records'), one row: (column, value) pairs
to_dict(columns, r) ==
    list([j \in 1..Len(columns) |-> <<columns[j], r[j]>>])

----------------------------------------------------------------------------
(* Column Classifier and Workbook Loader *)

\* variant: the last matching column instead of the first
RECURSIVE LastColumn(_, _)
LastColumn(columns, keyword) ==
    IF columns = <<>> THEN None
    ELSE IF Contains(Lower(columns[Len(columns)]), keyword)
         THEN columns[Len(columns)]
    ELSE LastColumn(SubSeq(columns, 1, Len(columns) - 1), keyword)

\* next((c for c in columns if keyword in c.lower()), None)
RECURSIVE FirstColumn(_, _)
FirstColumn(columns, keyword) ==
    IF columns = <<>> THEN None
    ELSE IF Contains(Lower(Head(columns)), keyword) THEN Head(columns)
    ELSE FirstColumn(Tail(columns), keyword)

KwDivision == <<"d", "i", "v", "i", "s", "i", "o", "n">>

KwRisk == <<"r", "i", "s", "k">>

KwHazard == <<"h", "a", "z", "a", "r", "d">>

KwControl == <<"c", "o", "n", "t", "r", "o", "l">>

\* read_excel's frame: the rows labelled 0, 1, 2, ...
Frame(columns, rows) ==
    [columns |-> columns,
     index   |-> list([i \in 1..Len(rows) |-> i - 1]),
     rows    |-> rows]

\* df[col] = values, for the column at position pos
SetColumn(columns, rows, pos, values) ==
    Frame(columns,
          list([i \in 1..Len(rows) |-> [rows[i] EXCEPT ![pos] = values[i]]]))

\* lines 33-34: the division-like column, when there is one, replaced by
\* its forward fill
FillDivision(columns, rows, pos) ==
    IF pos = 0 THEN Frame(columns, rows)
    ELSE SetColumn(columns, rows, pos,
                   ffill(list([i \in 1..Len(rows) |-> rows[i][pos]])))

\* lines 31-32: trimmed headers, then the search for the division column
Normalize(columns, rows) ==
    FillDivision(columns, rows,
                 IF FirstColumn(columns, KwDivision) # None
                 THEN ColPos(columns, FirstColumn(columns, KwDivision))
                 ELSE 0)

\* one sheet of load_workbook: read_excel, then the loop body
LoadSheet(t) ==
    Normalize(list([j \in 1..Len(t.columns) |-> Strip(t.columns[j])]), t.rows)

load_workbook(f) ==
    [data   |-> list([k \in 1..Len(f.tables) |-> LoadSheet(f.tables[k])]),
     sheets |-> f.sheet_names]

\* find_excel_file(): a path, or None when the folder holds no workbook
find_excel_file(f) == f.exists

----------------------------------------------------------------------------
(* Sidebar options and the Filter Engine *)

\* ["All"] + sorted(df[col].dropna().astype(str).unique().tolist())
Options(df, col) ==
    <<All>> \o Sorted({Str(v) : v \in {w \in Range(Column(df, col)) : ~isna(w)}})

\* variant: the cell itself compared with the selection, without astype(str)
EqualsMaskRaw(f, col, sel) ==
    LET c == Column(f, col)
    IN  list([i \in 1..Len(c) |-> c[i].t = "str" /\ c[i].s = sel])

\* filtered[col].astype(str) == str(sel)
EqualsMask(f, col, sel) ==
    LET c == Column(f, col) IN list([i \in 1..Len(c) |-> Str(c[i]) = sel])

\* Series.str.contains(pat, na=False) on one element.  The pattern is a
\* regular expression (regex=True is the default); na only decides the
\* answer for a missing element, and after astype(str) no element is missing.
str_contains(s, pat) == RegexSearch(pat, s)

\* row.astype(str).str.lower().str.contains(q, na=False).any()
RowMatches(r, q) ==
    \E j \in 1..Len(r) : str_contains(Lower(Str(r[j])), q)

\* filtered.apply(lambda row: ..., axis=1)
SearchMask(f, q) ==
    list([i \in 1..Len(f.rows) |-> RowMatches(f.rows[i], q)])

\* lines 121-122
DivisionStage(f, dcol, sdiv) ==
    IF dcol # None /\ sdiv # All
    THEN BoolIndex(f, EqualsMask(f, dcol, sdiv)) ELSE f

\* lines 123-124
RiskStage(f, rcol, srisk) ==
    IF rcol # None /\ srisk # All
    THEN BoolIndex(f, EqualsMask(f, rcol, srisk)) ELSE f

\* variant: the mask computed on the whole sheet and applied by position
SearchFrameWhole(df, narrowed) == df

\* the frame the free-text mask is computed on: the narrowed one
SearchFrame(df, narrowed) == narrowed

\* lines 125-128
SearchStage(df, f, query) ==
    IF query # <<>>
    THEN BoolIndex(f, SearchMask(SearchFrame(df, f), Lower(query)))
    ELSE f

\* lines 119-128: division stage, risk stage, free-text stage
ApplyFilters(df, dcol, rcol, sdiv, srisk, query) ==
    SearchStage(df, RiskStage(DivisionStage(df, dcol, sdiv), rcol, srisk),
                query)

----------------------------------------------------------------------------
(* Row details *)

NoRow == [kind |-> "info", dict |-> <<>>]

IndexError == [kind |-> "error", dict |-> <<>>]

\* variant: max_value=len(filtered)
NumberInputMaxLen(f) == Max(0, Len(f.rows))

\* max_value of the row number input
NumberInputMax(f) == Max(0, Len(f.rows) - 1)

\* filtered.iloc[int(idx)].to_dict(), shown with st.json
iloc(f, i) ==
    IF i \in 0..(Len(f.rows) - 1)
    THEN [kind |-> "json", dict |-> to_dict(f.columns, f.rows[i + 1])]
    ELSE IndexError

RowDetails(f, i) == IF Len(f.rows) = 0 THEN NoRow ELSE iloc(f, i)

----------------------------------------------------------------------------
(* Charts *)

NoChart == [kind |-> "none", data |-> {}]

\* variant: the charts computed from the filtered rows
ChartSourceFiltered(df, f) == f

\* the frame the charts are computed from
ChartSource(df, f) == df

\* df[col].fillna('Unknown').value_counts()
Counts(df, col) == value_counts(fillna(Column(df, col), Unknown))

\* lines 172-191: the dashboard column.  head(200) keeps the whole
\* cross-tabulation for every sheet of fewer than 200 rows.
Dashboard(df, dcol, rcol, hcol, ccol) ==
    [division |-> IF dcol # None
                  THEN [kind |-> "bar", data |-> Counts(df, dcol)]
                  ELSE NoChart,
     risk     |-> IF rcol # None
                  THEN [kind |-> "pie", data |-> Counts(df, rcol)]
                  ELSE NoChart,
     crosstab |-> IF hcol # None /\ ccol # None
                  THEN [kind |-> "table",
                        data |-> crosstab(fillna(Column(df, hcol), Unknown),
                                          fillna(Column(df, ccol), Unknown))]
                  ELSE NoChart]

\* lines 157-167: the chart of the PDF report
PdfChart(df, dcol, rcol) ==
    IF dcol # None THEN [kind |-> "bar", data |-> Counts(df, dcol)]
    ELSE IF rcol # None THEN [kind |-> "pie", data |-> Counts(df, rcol)]
    ELSE [kind |-> "scatter", data |-> {}]

----------------------------------------------------------------------------
(* Exports *)

RECURSIVE Join(_, _)
Join(parts, sep) ==
    IF parts = <<>> THEN <<>>
    ELSE IF Len(parts) = 1 THEN parts[1]
    ELSE parts[1] \o sep \o Join(Tail(parts), sep)

\* a cell as to_csv writes it: a missing cell is the empty field
CsvField(v) == IF isna(v) THEN <<>> ELSE Str(v)

\* filtered.to_csv(index=False): the header line, then one line per row
to_csv(f) ==
    <<Join(f.columns, <<",">>)>> \o
    list([i \in 1..Len(f.rows) |->
            Join(list([j \in 1..Len(f.columns) |-> CsvField(f.rows[i][j])]),
                 <<",">>)])

\* one sheet "Filtered" holding the columns and rows, without the index
to_excel_bytes(f) ==
    [sheet_name |-> "Filtered", columns |-> f.columns, rows |-> f.rows]

----------------------------------------------------------------------------
(* PDF report *)

PageWidth == 612

PageHeight == 792

TitleOffset == 40

BodyOffset == 70

ImageWidth == 800

ImageHeight == 400

ImageScale == 2

SideMargins == 80

ImageGap == 20

PdfRowLimit == 50

ValueLimit == 80

LineLimit == 200

BottomLimit == 60

LineStep == 12

NoPdf == [status |-> "none", title |-> <<>>, image |-> NoChart,
          lines |-> <<>>, pages |-> 0]

PdfError == [status |-> "error", title |-> <<>>, image |-> NoChart,
             lines |-> <<>>, pages |-> 0]

\* chart_fig.to_image(...): the PNG of the figure, or an exception when the
\* rendering backend cannot produce it
to_image(chart_fig, renders) ==
    IF renders THEN [raised |-> FALSE, png |-> chart_fig]
    ELSE [raised |-> TRUE, png |-> NoChart]

\* variant: no try/except around to_image
TryToImageUncaught(chart_fig, renders) == to_image(chart_fig, renders)

\* lines 47-51: the try/except around to_image leaves img_bytes = None
TryToImage(chart_fig, renders) ==
    LET r == to_image(chart_fig, renders)
    IN  IF r.raised THEN [raised |-> FALSE, png |-> NoChart] ELSE r

\* variant: every row is written
CapRowsNone(df_rows) == df_rows

\* rows = df_rows if len(df_rows) <= 50 else df_rows[:50]
CapRows(df_rows) ==
    IF Len(df_rows) <= PdfRowLimit THEN df_rows ELSE Take(df_rows, PdfRowLimit)

\* " | ".join([f"{k}: {str(v)[:80]}" for k, v in r.items()])
RowText(r) ==
    Join(list([j \in 1..Len(r) |->
                 r[j][1] \o <<":", " ">> \o Take(Str(r[j][2]), ValueLimit)]),
         <<" ", "|", " ">>)

\* [text[j:j+200] for j in range(0, len(text), 200)]
RECURSIVE Chunks(_)
Chunks(text) ==
    IF text = <<>> THEN <<>>
    ELSE <<Take(text, LineLimit)>> \o
         Chunks(SubSeq(text, Len(Take(text, LineLimit)) + 1, Len(text)))

\* lines 73-76: a new page when the cursor is below the bottom limit
NewPage(st) ==
    IF st.y < BottomLimit
    THEN [st EXCEPT !.pages = @ + 1, !.y = PageHeight - TitleOffset]
    ELSE st

\* lines 77-78: c.drawString(40, y, tl); y -= 12
DrawString(st, i, tl) ==
    [st EXCEPT !.lines = Append(@, [row |-> i, text |-> tl,
                                    page |-> st.pages, y |-> st.y]),
               !.y = @ - LineStep]

\* lines 72-78: the lines of row i
RECURSIVE DrawLines(_, _, _)
DrawLines(st, i, text_lines) ==
    IF text_lines = <<>> THEN st
    ELSE DrawLines(DrawString(NewPage(st), i, Head(text_lines)), i,
                   Tail(text_lines))

\* lines 69-78: for i, r in enumerate(rows), here for rows lo..hi-1
\* (the loop is split in halves to keep the evaluation shallow)
RECURSIVE DrawRange(_, _, _, _)
DrawRange(st, lo, hi, rows) ==
    IF st.pages = 0 \/ lo >= hi THEN st
    ELSE IF hi = lo + 1
         THEN DrawLines(st, lo, Chunks(RowText(rows[lo + 1])))
    ELSE DrawRange(DrawRange(st, lo, (lo + hi) \div 2, rows),
                   (lo + hi) \div 2, hi, rows)

DrawRows(st, rows) == DrawRange(st, 0, Len(rows), rows)

\* lines 58-65: the height the embedded image takes, int(ih*scale)
ImageDrop ==
    LET iw    == ImageWidth * ImageScale
        ih    == ImageHeight * ImageScale
        max_w == PageWidth - SideMargins
    IN  IF max_w >= iw THEN ih ELSE (ih * max_w) \div iw

\* the bytes c.save() leaves in the buffer
Document(title, image, st) ==
    [status |-> "ok", title |-> title, image |-> image,
     lines |-> st.lines, pages |-> st.pages]

\* lines 52-81 once img_bytes is known: title, image, rows, save
Compose(title, img, df_rows) ==
    IF img.raised THEN PdfError
    ELSE Document(title, img.png,
                  DrawRows([y     |-> IF img.png.kind # "none"
                                      THEN PageHeight - BodyOffset
                                           - ImageDrop - ImageGap
                                      ELSE PageHeight - BodyOffset,
                            pages |-> 1, lines |-> <<>>],
                           CapRows(df_rows)))

make_pdf_report(title, chart_fig, df_rows, renders) ==
    Compose(title, TryToImage(chart_fig, renders), df_rows)

----------------------------------------------------------------------------
(* Inputs: the workbook file found in the folder, and what the user types *)

Ab == <<"A", "b">>

Values == {NaN, Text(Ab), Number(1)}

Queries == {<<>>, <<"a", "B">>, <<"n", "a", "n">>, <<".">>}

HdrDivision == <<" ", "D", "i", "v", "i", "s", "i", "o", "n", " ">>

HdrDIVISION == <<"D", "I", "V", "I", "S", "I", "O", "N">>

HdrRiskLevel == <<"R", "i", "s", "k", " ", "L", "e", "v", "e", "l">>

HdrSubDivisionRisk ==
    <<"S", "u", "b", "-", "d", "i", "v", "i", "s", "i", "o", "n", " ",
      "r", "i", "s", "k">>

HdrHazard == <<"H", "a", "z", "a", "r", "d">>

HdrControl == <<"C", "o", "n", "t", "r", "o", "l">>

HdrTask == <<"T", "a", "s", "k">>

ColumnNames ==
    {HdrDivision, HdrDIVISION, HdrRiskLevel, HdrSubDivisionRisk, HdrHazard,
     HdrControl, HdrTask}

\* header rows of the sheets whose cells are enumerated in full
HeaderLists ==
    {<<HdrDivision, HdrRiskLevel>>, <<HdrSubDivisionRisk>>, <<HdrTask>>}

\* every header row of at most n distinct names
AllHeaderLists(n) ==
    {h \in UNION {[1..k -> ColumnNames] : k \in 1..n} :
        \A a, b \in 1..Len(h) : a # b => h[a] # h[b]}

\* every sheet with one of the header rows and at most n rows of cells
Tables(headers, n) ==
    UNION {{[columns |-> h, rows |-> r] :
                r \in UNION {[1..k -> [1..Len(h) -> Values]] : k \in 0..n}} :
           h \in headers}

\* the second sheet of a two-sheet workbook
ExtraSheet ==
    [columns |-> <<HdrRiskLevel, HdrHazard, HdrControl>>,
     rows    |-> <<<<Number(1), Text(Ab), NaN>>,
                   <<NaN, Text(Ab), Number(1)>>>>]

\* two rows for a sheet whose header row is what varies
ProbeRows(h) ==
    <<[j \in 1..Len(h) |-> Text(Ab)],
      [j \in 1..Len(h) |-> IF j % 2 = 1 THEN NaN ELSE Number(1)]>>

\* a sheet of n rows: a division written once per group of three rows, and
\* the row's number as its task
BigSheet(n) ==
    [columns |-> <<HdrDivision, HdrTask>>,
     rows    |-> [i \in 1..n |->
                    <<IF i % 6 = 1 THEN Text(Ab)
                      ELSE IF i % 6 = 4 THEN Number(1) ELSE NaN,
                      Number(i)>>]]

BigSizes ==
    {0, 1, PdfRowLimit - 1, PdfRowLimit, PdfRowLimit + 1, MaxPdfRows}

NoFile == [exists |-> FALSE, sheet_names |-> <<>>, tables |-> <<>>]

Book1(t) == [exists |-> TRUE, sheet_names |-> <<"Main">>, tables |-> <<t>>]

Book2(t, e) ==
    [exists |-> TRUE, sheet_names |-> <<"Main", "Extra">>,
     tables |-> <<t, e>>]

----------------------------------------------------------------------------
(* One run of the script *)

SheetIx(names, s) == CHOOSE k \in 1..Len(names) : names[k] = s

\* variant: the cached frames come back with their missing cells filled in
\* place by an earlier run
cache_dataFilled(started, f, data, names) ==
    IF started
    THEN [data   |-> list([k \in 1..Len(data) |->
                       [data[k] EXCEPT !.rows =
                          list([i \in 1..Len(data[k].rows) |->
                                  fillna(data[k].rows[i], Unknown)])]]),
          sheets |-> names]
    ELSE load_workbook(f)

\* @st.cache_data: the first call loads the file, later calls return the
\* cached workbook
cache_data(started, f, data, names) ==
    IF started THEN [data |-> data, sheets |-> names] ELSE load_workbook(f)

\* the sheet's table as the previous run saw it
PrevDF == data_dict[SheetIx(sheets, sheet_choice)]

\* line 90: the workbook, from the cache after the first run
WithWorkbook(c) ==
    c @@ [wb |-> cache_data(pc = "ready", file, data_dict, sheets)]

\* line 99: df = data_dict[sheet_choice].copy()
WithSheet(c) == c @@ [df |-> c.wb.data[SheetIx(c.wb.sheets, c.s)]]

\* lines 102-105: detect useful columns
WithColumns(c) ==
    c @@ [dcol |-> FirstColumn(c.df.columns, KwDivision),
          rcol |-> FirstColumn(c.df.columns, KwRisk),
          hcol |-> FirstColumn(c.df.columns, KwHazard),
          ccol |-> FirstColumn(c.df.columns, KwControl)]

\* lines 109-117: the two select boxes.  A widget keeps its value from one
\* run to the next while it is drawn with the same arguments, and otherwise
\* starts from its default, the first option.
WithSelections(c) ==
    c @@ [sdiv  |-> IF c.dcol = None THEN All
                    ELSE IF pc = "ready" /\ division_col # None
                            /\ Options(PrevDF, division_col)
                                 = Options(c.df, c.dcol)
                         THEN c.dWant ELSE All,
          srisk |-> IF c.rcol = None THEN All
                    ELSE IF pc = "ready" /\ risk_col # None
                            /\ Options(PrevDF, risk_col)
                                 = Options(c.df, c.rcol)
                         THEN c.rWant ELSE All]

\* lines 119-128
WithFiltered(c) ==
    c @@ [f |-> ApplyFilters(c.df, c.dcol, c.rcol, c.sdiv, c.srisk, c.q)]

\* line 144: the row number input, value=0 unless it keeps its value
WithRow(c) ==
    c @@ [i |-> IF Len(c.f.rows) = 0 THEN 0
                ELSE IF pc = "ready" /\ Len(filtered.rows) > 0
                        /\ NumberInputMax(filtered) = NumberInputMax(c.f)
                     THEN c.iWant ELSE 0]

\* what the run leaves in the session; the rest of the page is computed
\* from it (row, csv_bytes, xlsx_bytes and charts below)
Show(c) ==
    /\ pc' = "ready"
    /\ file' = file
    /\ data_dict' = c.wb.data
    /\ sheets' = c.wb.sheets
    /\ sheet_choice' = c.s
    /\ search_q' = c.q
    /\ division_col' = c.dcol
    /\ risk_col' = c.rcol
    /\ hazard_col' = c.hcol
    /\ control_col' = c.ccol
    /\ sel_div' = c.sdiv
    /\ sel_risk' = c.srisk
    /\ filtered' = c.f
    /\ idx' = c.i
    /\ pdf_bytes' = IF c.clicked
                    THEN make_pdf_report(
                             <<"JHA Report", c.s>>,
                             PdfChart(ChartSource(c.df, c.f), c.dcol, c.rcol),
                             list([k \in 1..Len(c.f.rows) |->
                                      to_dict(c.f.columns, c.f.rows[k])]),
                             c.renders)
                    ELSE NoPdf

\* one run of the script from top to bottom, with the widget values the
\* session holds: sheet s, query q, and the wanted division, risk and row
Run(s, q, dWant, rWant, iWant, clicked, renders) ==
    Show(WithRow(WithFiltered(WithSelections(WithColumns(WithSheet(
        WithWorkbook([s |-> s, q |-> q, dWant |-> dWant, rWant |-> rWant,
                      iWant |-> iWant, clicked |-> clicked,
                      renders |-> renders])))))))

----------------------------------------------------------------------------
(* The page a finished run shows *)

\* lines 141-146: the row details
row == RowDetails(filtered, idx)

\* line 149: the data of the CSV download button
csv_bytes == to_csv(filtered)

\* line 151: the data of the Excel download button
xlsx_bytes == to_excel_bytes(filtered)

\* lines 172-191: the dashboard column
charts ==
    Dashboard(ChartSource(PrevDF, filtered), division_col, risk_col,
              hazard_col, control_col)

----------------------------------------------------------------------------
(* Actions *)

\* the first run: the file is found, loaded, and shown with default widgets
Start ==
    /\ pc = "start"
    /\ find_excel_file(file)
    /\ Run(file.sheet_names[1], <<>>, All, All, 0, FALSE, FALSE)

\* lines 85-88: no workbook in the folder, st.error and st.stop
NotFound ==
    /\ pc = "start"
    /\ ~find_excel_file(file)
    /\ pc' = "stopped"
    /\ UNCHANGED <<file, data_dict, sheets, sheet_choice, search_q, sel_div,
                   sel_risk, division_col, risk_col, hazard_col, control_col,
                   filtered, idx, pdf_bytes>>

SelectSheet ==
    /\ pc = "ready"
    /\ \E s \in Range(sheets) :
          /\ s # sheet_choice
          /\ Run(s, search_q, sel_div, sel_risk, idx, FALSE, FALSE)

SelectDivision ==
    /\ pc = "ready"
    /\ division_col # None
    /\ \E d \in Range(Options(PrevDF, division_col)) :
          /\ d # sel_div
          /\ Run(sheet_choice, search_q, d, sel_risk, idx, FALSE, FALSE)

SelectRisk ==
    /\ pc = "ready"
    /\ risk_col # None
    /\ \E r \in Range(Options(PrevDF, risk_col)) :
          /\ r # sel_risk
          /\ Run(sheet_choice, search_q, sel_div, r, idx, FALSE, FALSE)

Search ==
    /\ pc = "ready"
    /\ \E q \in Queries :
          /\ q # search_q
          /\ Run(sheet_choice, q, sel_div, sel_risk, idx, FALSE, FALSE)

SelectRow ==
    /\ pc = "ready"
    /\ Len(filtered.rows) > 0
    /\ \E i \in 0..NumberInputMax(filtered) :
          /\ i <= MaxPick \/ i = NumberInputMax(filtered)
          /\ i # idx
          /\ Run(sheet_choice, search_q, sel_div, sel_risk, i, FALSE, FALSE)

\* a click on "Generate PDF report"; the chart may or may not render
GeneratePdf ==
    /\ pc = "ready"
    /\ \E renders \in BOOLEAN :
          Run(sheet_choice, search_q, sel_div, sel_risk, idx, TRUE, renders)

\* a click on one of the download buttons: the script runs again unchanged
Download ==
    /\ pc = "ready"
    /\ Run(sheet_choice, search_q, sel_div, sel_risk, idx, FALSE, FALSE)

Next ==
    \/ Start
    \/ NotFound
    \/ SelectSheet
    \/ SelectDivision
    \/ SelectRisk
    \/ Search
    \/ SelectRow
    \/ GeneratePdf
    \/ Download

Idle ==
    /\ pc = "start"
    /\ data_dict = <<>>
    /\ sheets = <<>>
    /\ sheet_choice = ""
    /\ search_q = <<>>
    /\ sel_div = All
    /\ sel_risk = All
    /\ division_col = None
    /\ risk_col = None
    /\ hazard_col = None
    /\ control_col = None
    /\ filtered = EmptyDF
    /\ idx = 0
    /\ pdf_bytes = NoPdf

\* small sheets, every cell enumerated
Init ==
    /\ file \in {NoFile}
            \cup {Book1(t) : t \in Tables(HeaderLists, MaxRows)}
            \cup {Book2(t, ExtraSheet) : t \in Tables(HeaderLists, MaxRowsMulti)}
    /\ Idle

Spec == Init /\ [][Next]_vars

\* every header row over the column names, two fixed rows
InitCols ==
    /\ file \in {NoFile}
            \cup {Book2([columns |-> h, rows |-> ProbeRows(h)], ExtraSheet) :
                     h \in AllHeaderLists(MaxCols)}
    /\ Idle

SpecCols == InitCols /\ [][Next]_vars

\* a single division column, every cell enumerated
InitFill ==
    /\ file \in {NoFile}
            \cup {Book2(t, ExtraSheet) :
                     t \in Tables({<<HdrDIVISION>>}, MaxFillRows)}
    /\ Idle

SpecFill == InitFill /\ [][Next]_vars

\* long sheets, around and beyond the row limit of the PDF report
InitBig ==
    /\ file \in {NoFile} \cup {Book2(BigSheet(n), ExtraSheet) : n \in BigSizes}
    /\ Idle

SpecBig == InitBig /\ [][Next]_vars

----------------------------------------------------------------------------
(* Properties *)

Ready == pc = "ready"

\* the active sheet's table, as cached
ActiveSheet == PrevDF

Cell(df, i, col) == df.rows[i][ColPos(df.columns, col)]

ReportTitle == <<"JHA Report", sheet_choice>>

\* the active sheet after the division and risk stages
Narrowed ==
    RiskStage(DivisionStage(ActiveSheet, division_col, sel_div),
              risk_col, sel_risk)

\* some present cell of the row contains lower-cased q as a plain substring
LiteralMatch(r, q) ==
    \E j \in 1..Len(r) : ~isna(r[j]) /\ Contains(Lower(Str(r[j])), Lower(q))

\* C1: with a non-empty query q, a row of the narrowed table is kept if and
\* only if one of its present cells has a string form that contains
\* lower-cased q as a substring, ignoring case; a missing cell never makes a
\* row match.
C1_SearchKeepsLiteralMatches ==
    (Ready /\ search_q # <<>>) =>
        Range(filtered.index) =
            {Narrowed.index[i] :
                i \in {k \in 1..Len(Narrowed.rows) :
                          LiteralMatch(Narrowed.rows[k], search_q)}}

\* row i of the active sheet passes the division and risk selections
Selected(i) ==
    /\ (division_col # None /\ sel_div # All) =>
           Str(Cell(ActiveSheet, i, division_col)) = sel_div
    /\ (risk_col # None /\ sel_risk # All) =>
           Str(Cell(ActiveSheet, i, risk_col)) = sel_risk

\* C2: with an empty query the filtered result is exactly the rows of the
\* active sheet whose division and risk values, converted to string, equal
\* the selections (an unbound column or the selection "All" removes
\* nothing), in the order of the sheet; no selection is an error.
C2_DivisionRiskStages ==
    (Ready /\ search_q = <<>>) =>
        /\ filtered.columns = ActiveSheet.columns
        /\ Range(filtered.index) =
               {ActiveSheet.index[i] :
                   i \in {k \in 1..Len(ActiveSheet.rows) : Selected(k)}}
        /\ \A a, b \in 1..Len(filtered.index) :
               a < b => filtered.index[a] < filtered.index[b]
        /\ \A a \in 1..Len(filtered.rows) :
               filtered.rows[a] = ActiveSheet.rows[filtered.index[a] + 1]

C2_Witness ==
    /\ Ready /\ search_q = <<>>
    /\ division_col # None /\ sel_div # All
    /\ risk_col # None /\ sel_risk # All
    /\ Len(filtered.rows) >= 1
    /\ Len(filtered.rows) < Len(ActiveSheet.rows)

\* column p is the first one whose name contains the keyword, ignoring case
FirstMatch(columns, p, keyword) ==
    /\ Contains(Lower(columns[p]), keyword)
    /\ \A j \in 1..(p - 1) : ~Contains(Lower(columns[j]), keyword)

\* C3: in every loaded sheet with a division-like column, a cell of that
\* column is blank only if every cell above it is blank; a cell that was
\* blank in the file holds the nearest value above it, and the other cells
\* hold what the file holds.
C3_ForwardFill ==
    Ready =>
        \A k \in 1..Len(data_dict) :
            \A p \in 1..Len(data_dict[k].columns) :
                FirstMatch(data_dict[k].columns, p, KwDivision) =>
                    \A i \in 1..Len(data_dict[k].rows) :
                        LET raw  == file.tables[k].rows
                            v    == data_dict[k].rows[i][p]
                            seen == {h \in 1..(i - 1) : ~isna(raw[h][p])}
                        IN  /\ isna(v) =>
                                 \A h \in 1..(i - 1) :
                                     isna(data_dict[k].rows[h][p])
                            /\ ~isna(raw[i][p]) => v = raw[i][p]
                            /\ (isna(raw[i][p]) /\ seen # {}) =>
                                 v = raw[CHOOSE h \in seen :
                                            \A g \in seen : g <= h][p]

C3_Witness ==
    /\ Ready
    /\ \E i \in 3..Len(file.tables[1].rows) :
          LET raw == file.tables[1].rows
          IN  /\ isna(raw[i][1])
              /\ ~isna(raw[i - 1][1])
              /\ ~isna(raw[i - 2][1])
              /\ raw[i - 1][1] # raw[i - 2][1]
              /\ data_dict[1].rows[i][1] = raw[i - 1][1]

\* the columns whose name contains the keyword, ignoring case
Matches(columns, keyword) ==
    {j \in 1..Len(columns) : Contains(Lower(columns[j]), keyword)}

\* the first of them, or None
Bound(columns, keyword) ==
    IF Matches(columns, keyword) = {} THEN None
    ELSE columns[CHOOSE j \in Matches(columns, keyword) :
                    \A h \in Matches(columns, keyword) : j <= h]

\* C4: for each of the four keywords the bound column is the first column,
\* in column order, whose name contains the keyword ignoring case, and it is
\* absent exactly when no name contains it; the binding is a function of the
\* column list, the same in every run.
C4_ColumnClassifier ==
    Ready =>
        /\ division_col = Bound(ActiveSheet.columns, KwDivision)
        /\ risk_col = Bound(ActiveSheet.columns, KwRisk)
        /\ hazard_col = Bound(ActiveSheet.columns, KwHazard)
        /\ control_col = Bound(ActiveSheet.columns, KwControl)

C4_Witness ==
    /\ Ready
    /\ Cardinality(Matches(ActiveSheet.columns, KwDivision)) >= 2
    /\ division_col = ActiveSheet.columns[1]
    /\ control_col = None

Shown(i, col) ==
    IF isna(Cell(ActiveSheet, i, col)) THEN Unknown
    ELSE Cell(ActiveSheet, i, col)

\* the counts of a column over all rows of the active sheet
WholeCounts(col) ==
    {[value |-> v,
      count |-> Cardinality({i \in 1..Len(ActiveSheet.rows) :
                                Shown(i, col) = v})] :
        v \in {Shown(i, col) : i \in 1..Len(ActiveSheet.rows)}}

\* the hazard by control counts over all rows of the active sheet
WholeCrosstab ==
    {[hazard |-> x, control |-> y,
      count |-> Cardinality({i \in 1..Len(ActiveSheet.rows) :
                                /\ Shown(i, hazard_col) = x
                                /\ Shown(i, control_col) = y})] :
        x \in {Shown(i, hazard_col) : i \in 1..Len(ActiveSheet.rows)},
        y \in {Shown(i, control_col) : i \in 1..Len(ActiveSheet.rows)}}

\* C6: the division counts, the risk counts and the hazard by control table
\* of the dashboard, and the chart of the PDF, are those of all rows of the
\* active sheet with a missing value counted as "Unknown", whatever the
\* division, risk and query selections are.
C6_ChartsIgnoreFilters ==
    Ready =>
        /\ charts.division.data =
               IF division_col # None THEN WholeCounts(division_col) ELSE {}
        /\ charts.risk.data =
               IF risk_col # None THEN WholeCounts(risk_col) ELSE {}
        /\ charts.crosstab.data =
               IF hazard_col # None /\ control_col # None
               THEN WholeCrosstab ELSE {}
        /\ (pdf_bytes.status = "ok" /\ pdf_bytes.image.kind # "none") =>
               pdf_bytes.image.data =
                   IF division_col # None THEN WholeCounts(division_col)
                   ELSE IF risk_col # None THEN WholeCounts(risk_col)
                   ELSE {}

C6_Witness ==
    /\ Ready
    /\ Len(filtered.rows) >= 1
    /\ Len(filtered.rows) < Len(ActiveSheet.rows)
    /\ charts.division.kind = "bar"
    /\ pdf_bytes.image.kind = "bar"
    /\ \E e \in pdf_bytes.image.data : e.count > Len(filtered.rows)

\* the text of the k-th filtered row as the report writes it
FilteredText(k) == RowText(to_dict(filtered.columns, filtered.rows[k]))

\* C7: the text dump of the report covers exactly the first min(n, 50) of
\* the n filtered rows, in their order; for n = 0 the report has its title
\* and chart and no row text.
C7_PdfRowCap ==
    pdf_bytes.status = "ok" =>
        LET n == Len(filtered.rows)
            m == IF n < 50 THEN n ELSE 50
        IN  /\ pdf_bytes.title = ReportTitle
            /\ Len(pdf_bytes.lines) = m
            /\ \A k \in 1..m :
                  /\ pdf_bytes.lines[k].row = k - 1
                  /\ pdf_bytes.lines[k].text = FilteredText(k)
            /\ pdf_bytes.image \in
                  {NoChart, PdfChart(ActiveSheet, division_col, risk_col)}

C7_Witness ==
    /\ pdf_bytes.status = "ok"
    /\ Len(filtered.rows) = 120
    /\ Len(pdf_bytes.lines) = 50
    /\ pdf_bytes.lines[50].row = 49
    /\ pdf_bytes.image.kind = "bar"

\* C8: a click on the report button always yields a document; when the chart
\* image could not be made the document has no image and still has the
\* title and the text of the first rows.
C8_RenderFailureRecovered ==
    Ready =>
        /\ pdf_bytes.status \in {"none", "ok"}
        /\ (pdf_bytes.status = "ok" /\ pdf_bytes.image.kind = "none") =>
               /\ pdf_bytes.title = ReportTitle
               /\ Len(pdf_bytes.lines) = Min(Len(filtered.rows), 50)
               /\ \A k \in 1..Len(pdf_bytes.lines) :
                      pdf_bytes.lines[k].text = FilteredText(k)

C8_Witness ==
    /\ Ready
    /\ pdf_bytes.status = "ok"
    /\ pdf_bytes.image.kind = "none"
    /\ Len(pdf_bytes.lines) >= 2

\* C9: with no filtered row the row details show the "no rows" note and no
\* row is looked up; otherwise the row number is within 0 .. len(filtered)-1
\* and the details are those of that row.
C9_RowDetailsInRange ==
    Ready =>
        IF Len(filtered.rows) = 0 THEN row = NoRow
        ELSE /\ idx \in 0..(Len(filtered.rows) - 1)
             /\ row.kind = "json"
             /\ row.dict = [j \in 1..Len(filtered.columns) |->
                              <<filtered.columns[j], filtered.rows[idx + 1][j]>>]

C9_Witness ==
    /\ Ready
    /\ Len(filtered.rows) >= 2
    /\ idx = Len(filtered.rows) - 1
    /\ row.kind = "json"

====
